---- MODULE Spec2Model ----
(***************************************************************************)
(* The Receive screen of the wallet: the scramble/reveal animation of the  *)
(* receive address (componentWillReceiveProps, unscramble,                 *)
(* componentWillUnmount) and the two asynchronous handlers that talk to    *)
(* the seed store (onGeneratePress, validateAdress); and the market data   *)
(* actions that fetch the price and the chart series.                      *)
(***************************************************************************)
EXTENDS Integers, Sequences, FiniteSets, TLC

\* ---------------------------------------------------------------- bounds
\* Number of address characters of the model (libs/iota/utils ADDRESS_LENGTH).
ADDRESS_LENGTH == 2
\* Largest magnitude randomBytes delivers in the model (a byte: up to 255).
MaxByte == 31
\* Largest number of clicks on the "generate new address" button.
MaxPress == 2
\* Largest number of changeCurrency and changeTimeframe calls.
MaxThunks == 1

\* ------------------------------------------------------ program constants
\* Magnitude removed from every position on a decay tick.
DecayStep == 15
\* Frame counter value above which a call is a decay tick.
FrameThreshold == 3
\* Value of this.frame after componentWillUnmount.
StoppedFrame == -1

\* Magnitudes randomBytes can deliver: 0, one step or less, more than a step.
Bytes == {0, 1, DecayStep, MaxByte}

Positions == 1..ADDRESS_LENGTH

Max(a, b) == IF a >= b THEN a ELSE b

RECURSIVE SumFrom(_, _)
SumFrom(s, i) == IF i > Len(s) THEN 0 ELSE s[i] + SumFrom(s, i + 1)
\* The accumulation `sum += scramble[i]` over the whole buffer.
Sum(s) == SumFrom(s, 1)

RECURSIVE MaxFrom(_, _)
MaxFrom(s, i) == IF i > Len(s) THEN 0 ELSE Max(s[i], MaxFrom(s, i + 1))
MaxOf(s) == MaxFrom(s, 1)

CeilDiv(a, b) == (a + b - 1) \div b

\* new Array(ADDRESS_LENGTH).fill(0)
ZeroBuffer == [i \in Positions |-> 0]
randomBytesShort == [1..(ADDRESS_LENGTH - 1) -> Bytes]
\* The values randomBytes(ADDRESS_LENGTH) can return.
randomBytes == [Positions -> Bytes]

\* The translation function t of react-i18next: a key is mapped to its
\* translation, which is not the key.
t(key) == <<"translated", key>>

\* ------------------------------------------------------------- unscramble
StoppedMut(f) == FALSE
\* `if (this.frame < 0) return;`
Stopped(f) == f < 0

DecayDueMut(f) == f >= FrameThreshold
\* `if (this.frame > 3)`
DecayDue(f) == f > FrameThreshold

DecayEntryNoFloor(v) == v - DecayStep
DecayEntryStuck(v) == IF v >= DecayStep THEN v - DecayStep ELSE v
DecayEntryMirror(v) == Max(0, DecayStep - v)
\* `Math.max(0, scramble[i] - 15)`
DecayEntry(v) == Max(0, v - DecayStep)

\* One call of unscramble() with this.frame = f and this.state.scramble = s:
\* the new frame counter, the buffer handed to setState (when decayed), and
\* whether requestAnimationFrame is called.
unscramble(f, s) ==
    IF Stopped(f)
    THEN [frame |-> f, decayed |-> FALSE, scramble |-> s, schedule |-> FALSE]
    ELSE LET due == DecayDue(f)
             sum == IF due THEN Sum(s) ELSE -1
             scrambleNew == [i \in DOMAIN s |-> DecayEntry(s[i])]
         IN  [frame    |-> (IF due THEN 0 ELSE f) + 1,
              decayed  |-> due,
              scramble |-> IF due THEN scrambleNew ELSE s,
              schedule |-> sum # 0]

\* ------------------------------------------------------------------ state
VARIABLES
    lifecycle,      \* "constructed", "mounted" or "unmounted"
    frame,          \* this.frame (unread until a cycle is started)
    started,        \* componentWillReceiveProps has started a reveal cycle
    scramble,       \* this.state.scramble
    pending,        \* requestAnimationFrame callbacks of unscramble queued
    isSyncing,                   \* state.ui.isSyncing
    isTransitioning,             \* state.ui.isTransitioning
    isGeneratingReceiveAddress,  \* state.ui.isGeneratingReceiveAddress
    receiveAddress, \* number of addresses delivered so far (names the address)
    genAwait,       \* onGeneratePress calls suspended at `await new SeedStore`
    genQueue,       \* generateNewAddress calls the wallet has not begun yet
    alerts,         \* generateAlert calls, in order
    nav,            \* history.push calls, in order
    valPc,          \* position of validateAdress
    valid,          \* what seedStore.validateAddress returned
    \* history of the run, read by the properties only
    seed,           \* the buffer the last cycle was started with
    calls,          \* live unscramble callbacks since the last start
    starts,         \* reveal cycles started
    staleCalls,     \* unscramble callbacks that ran after unmount
    presses,        \* onGeneratePress invocations
    okPresses,      \* ... of which found both busy flags false
    genCalls,       \* this.props.generateNewAddress invocations
    genRejected,    \* onGeneratePress calls whose seed store threw
    \* the market data actions (shared/actions/marketData.js)
    settings,       \* getState().settings: the currency of the wallet
    log,            \* dispatched actions and API requests, in order
    priceInFlight,  \* coingecko.simple.price requests not answered yet
    chartCalls,     \* one entry per getChartData call: its chartData object
                    \* and the timeframes whose fetch has not settled
    thunks,         \* history: the changeCurrency/changeTimeframe calls made
    priceOk,        \* history: price requests answered
    priceFailed     \* history: price requests failed

revealVars == <<frame, started, scramble, pending, seed, calls, starts, staleCalls>>
storeVars  == <<isSyncing, isTransitioning, isGeneratingReceiveAddress, receiveAddress, genQueue>>
genVars    == <<genAwait, presses, okPresses, genCalls, genRejected>>
valVars    == <<valPc, valid>>
marketVars == <<settings, log, priceInFlight, chartCalls, thunks, priceOk, priceFailed>>
vars == <<lifecycle, revealVars, storeVars, genVars, valVars, alerts, nav, marketVars>>

\* The currencies of the model.
Currencies == {"USD", "EUR"}

\* What validateAddress can return: false, true, or an object carrying a
\* notification.
Notifications == {[title |-> "title1", content |-> "content1"],
                  [title |-> "title2", content |-> "content2"]}
ValidResults ==
    {[truthy |-> FALSE, notification |-> <<>>],
     [truthy |-> TRUE,  notification |-> <<>>]}
    \cup {[truthy |-> TRUE, notification |-> <<n>>] : n \in Notifications}
NoResult == [truthy |-> FALSE, notification |-> <<"none">>]

\* The component as constructed.  this.frame is not assigned yet; it is not
\* read before componentWillReceiveProps or componentWillUnmount assigns it.
Init ==
    /\ lifecycle = "constructed"
    /\ frame = 0
    /\ started = FALSE
    /\ scramble = ZeroBuffer
    /\ pending = 0
    /\ isSyncing \in BOOLEAN
    /\ isTransitioning \in BOOLEAN
    /\ isGeneratingReceiveAddress = FALSE
    /\ receiveAddress = 0
    /\ genAwait = 0
    /\ genQueue = 0
    /\ alerts = <<>>
    /\ nav = <<>>
    /\ valPc = "idle"
    /\ valid = NoResult
    /\ seed = ZeroBuffer
    /\ calls = 0
    /\ starts = 0
    /\ staleCalls = 0
    /\ presses = 0
    /\ okPresses = 0
    /\ genCalls = 0
    /\ genRejected = 0
    /\ settings = "USD"
    /\ log = <<>>
    /\ priceInFlight = <<>>
    /\ chartCalls = <<>>
    /\ thunks = <<>>
    /\ priceOk = 0
    /\ priceFailed = 0

\* ------------------------------------------------------------ market data
\* String.prototype.toLowerCase on a currency code.
toLowerCase(c) == CASE c = "USD" -> "usd" [] c = "EUR" -> "eur"

\* `const timeframes = ['24h', '7d', '1m', '1h']`
timeframes == <<"24h", "7d", "1m", "1h">>

\* The `days` fetchChartData asks coingecko for: timeframeMap, and the 24h
\* series for '1h'.
Days(timeframe) ==
    CASE timeframe = "24h" -> 1
      [] timeframe = "7d"  -> 7
      [] timeframe = "1m"  -> 30
      [] timeframe = "1h"  -> 1

\* What the API can answer: a price object, a list of price points.
Prices == {"price1", "price2"}
ChartPrices == {<<10, 11>>}

\* formatChartData of libs/utils: the price points turned into chart points.
formatChartData(data) == [k \in DOMAIN data |-> [x |-> k - 1, y |-> data[k]]]

\* Plain actions: setCurrency, setTimeframe, setPrice, setChartData.
setCurrency(currency)   == [kind |-> "dispatch", type |-> "SET_CURRENCY", payload |-> currency]
setTimeframe(timeframe) == [kind |-> "dispatch", type |-> "SET_TIMEFRAME", payload |-> timeframe]
setPrice(price)         == [kind |-> "dispatch", type |-> "SET_PRICE", payload |-> price]
setChartData(chartData) == [kind |-> "dispatch", type |-> "SET_CHART_DATA", payload |-> chartData]

\* The request getPrice sends: coingecko.simple.price for the lower-cased
\* currency of the state; its argument is not used.
priceRequest(passed, state) ==
    [kind |-> "request", type |-> "simple.price", payload |-> toLowerCase(state)]

\* The requests getChartData sends, one per timeframe, in order.
chartRequests(state) ==
    [i \in DOMAIN timeframes |->
        [kind |-> "request", type |-> "fetchMarketChart",
         payload |-> [days |-> Days(timeframes[i]), vs |-> toLowerCase(state)]]]

\* `const chartData = {}` with every fetch outstanding.
NewChartCall ==
    [outstanding |-> {timeframes[i] : i \in DOMAIN timeframes},
     failed      |-> {},
     chartData   |-> [tf \in {} |-> <<>>]]

\* What state.settings can be after SET_CURRENCY went through the reducers:
\* the action belongs to the market data slice, the reducer of `settings` is
\* free to keep its value or to take the payload.
settingsAfterSetCurrency(state, payload) == {state, payload}

\* getPrice and getChartData dispatched one after the other with the state
\* `state`, after the plain action `first`.
FetchAll(name, first, currency, timeframe, state) ==
    /\ Len(thunks) < MaxThunks
    /\ thunks' = Append(thunks, [name |-> name, currency |-> currency,
                                 timeframe |-> timeframe, at |-> Len(log)])
    /\ settings' = state
    /\ log' = log \o <<first, priceRequest(currency, state)>> \o chartRequests(state)
    /\ priceInFlight' = Append(priceInFlight, toLowerCase(state))
    /\ chartCalls' = Append(chartCalls, NewChartCall)
    /\ UNCHANGED <<priceOk, priceFailed>>
    /\ UNCHANGED <<lifecycle, revealVars, storeVars, genVars, valVars, alerts, nav>>

changeCurrency ==
    \E currency \in Currencies, timeframe \in {"24h", "7d"} :
        \E state \in settingsAfterSetCurrency(settings, currency) :
            FetchAll("changeCurrency", setCurrency(currency), currency, timeframe, state)

changeTimeframe ==
    \E currency \in Currencies, timeframe \in {"24h", "7d"} :
        FetchAll("changeTimeframe", setTimeframe(timeframe), currency, timeframe, settings)

Remove(seq, i) == [j \in 1..(Len(seq) - 1) |-> IF j < i THEN seq[j] ELSE seq[j + 1]]

\* getPrice's request was answered: `.then((price) => dispatch(setPrice(price)))`.
getPriceThen ==
    /\ \E i \in DOMAIN priceInFlight, price \in Prices :
         /\ priceInFlight' = Remove(priceInFlight, i)
         /\ log' = Append(log, setPrice(price))
    /\ priceOk' = priceOk + 1
    /\ UNCHANGED <<settings, chartCalls, thunks, priceFailed>>
    /\ UNCHANGED <<lifecycle, revealVars, storeVars, genVars, valVars, alerts, nav>>

\* getPrice's request failed: the promise is rejected, nothing is dispatched.
getPriceRejected ==
    /\ \E i \in DOMAIN priceInFlight : priceInFlight' = Remove(priceInFlight, i)
    /\ priceFailed' = priceFailed + 1
    /\ UNCHANGED <<settings, log, chartCalls, thunks, priceOk>>
    /\ UNCHANGED <<lifecycle, revealVars, storeVars, genVars, valVars, alerts, nav>>

\* A fetch of getChartData was answered:
\* `chartData[timeframe] = formatChartData(data)`.
getChartDataThen ==
    /\ \E k \in DOMAIN chartCalls :
         \E timeframe \in chartCalls[k].outstanding, data \in ChartPrices :
            chartCalls' = [chartCalls EXCEPT ![k] =
                [outstanding |-> @.outstanding \ {timeframe},
                 failed      |-> @.failed,
                 chartData   |-> [tf \in DOMAIN @.chartData \cup {timeframe} |->
                                    IF tf = timeframe THEN formatChartData(data)
                                    ELSE @.chartData[tf]]]]
    /\ UNCHANGED <<settings, log, priceInFlight, thunks, priceOk, priceFailed>>
    /\ UNCHANGED <<lifecycle, revealVars, storeVars, genVars, valVars, alerts, nav>>

\* A fetch of getChartData failed: `.catch((error) => console.log(error))`.
getChartDataCatch ==
    /\ \E k \in DOMAIN chartCalls :
         \E timeframe \in chartCalls[k].outstanding :
            chartCalls' = [chartCalls EXCEPT ![k] =
                [outstanding |-> @.outstanding \ {timeframe},
                 failed      |-> @.failed \cup {timeframe},
                 chartData   |-> @.chartData]]
    /\ UNCHANGED <<settings, log, priceInFlight, thunks, priceOk, priceFailed>>
    /\ UNCHANGED <<lifecycle, revealVars, storeVars, genVars, valVars, alerts, nav>>

MarketNext ==
    \/ changeCurrency
    \/ changeTimeframe
    \/ getPriceThen
    \/ getPriceRejected
    \/ getChartDataThen
    \/ getChartDataCatch

MarketSpec == Init /\ [][MarketNext]_vars

\* ------------------------------------------------- componentWillReceiveProps
\* The body of the `if`: a reveal cycle is started with the buffer rb that
\* randomBytes returned.  setState is batched inside the lifecycle method, so
\* the unscramble() call still reads the previous this.state.scramble, and a
\* setState it makes would override the one made here.
StartCycle(rb) ==
    LET u == unscramble(0, scramble)
    IN  /\ frame' = u.frame
        /\ scramble' = IF u.decayed THEN u.scramble ELSE rb
        /\ pending' = pending + (IF u.schedule THEN 1 ELSE 0)
        /\ started' = TRUE
        /\ seed' = rb
        /\ calls' = 0
        /\ starts' = starts + 1
        /\ UNCHANGED staleCalls

\* `this.props.isGeneratingReceiveAddress && !nextProps.isGeneratingReceiveAddress`
GenerationFinished(was, next) == was /\ ~next

\* React delivers the next props to the mounted component.
componentWillReceiveProps(nextIsGenerating) ==
    IF lifecycle = "mounted"
       /\ GenerationFinished(isGeneratingReceiveAddress, nextIsGenerating)
    THEN \E rb \in randomBytes : StartCycle(rb)
    ELSE UNCHANGED revealVars

\* ------------------------------------------------------- lifecycle methods
\* componentDidMount: validateAdress() runs up to its first await.
componentDidMount ==
    /\ lifecycle = "constructed"
    /\ lifecycle' = "mounted"
    /\ valPc' = "awaitSeedStore"
    /\ UNCHANGED <<revealVars, storeVars, genVars, valid, alerts, nav>>
    /\ UNCHANGED marketVars

componentWillUnmount ==
    /\ lifecycle = "mounted"
    /\ lifecycle' = "unmounted"
    /\ frame' = StoppedFrame
    /\ UNCHANGED <<started, scramble, pending, seed, calls, starts, staleCalls,
                   storeVars, genVars, valVars, alerts, nav>>
    /\ UNCHANGED marketVars

\* The count of callbacks kept in `calls` stops here; a cycle, and a second
\* frame loop running beside it, are over well before.
CallsCap == 4 * (CeilDiv(MaxByte, DecayStep) + 4)

\* The display-refresh scheduler runs one queued unscramble callback.  Outside
\* a lifecycle method setState is applied before the callback returns.
advanceFrame ==
    /\ pending > 0
    /\ LET u == unscramble(frame, scramble)
       IN  /\ frame' = u.frame
           /\ scramble' = u.scramble
           /\ pending' = pending - 1 + (IF u.schedule THEN 1 ELSE 0)
    /\ calls' = IF lifecycle = "mounted" /\ calls < CallsCap THEN calls + 1 ELSE calls
    /\ staleCalls' = IF lifecycle = "unmounted" THEN staleCalls + 1 ELSE staleCalls
    /\ UNCHANGED <<lifecycle, started, seed, starts, storeVars, genVars, valVars,
                   alerts, nav>>
    /\ UNCHANGED marketVars

\* ----------------------------------------------------------- onGeneratePress
BlockedMut(syncing, transitioning) == syncing
\* `if (isSyncing || isTransitioning)`
Blocked(syncing, transitioning) == syncing \/ transitioning

PleaseWaitAlert ==
    [level |-> "error", title |-> t("global:pleaseWait"),
     body |-> t("global:pleaseWaitExplanation"), by |-> "onGeneratePress"]

\* A click on the button: the handler runs up to its return or its await.
onGeneratePress ==
    /\ lifecycle = "mounted"
    /\ presses < MaxPress
    /\ presses' = presses + 1
    /\ IF Blocked(isSyncing, isTransitioning)
       THEN /\ alerts' = Append(alerts, PleaseWaitAlert)
            /\ UNCHANGED <<genAwait, okPresses>>
       ELSE /\ genAwait' = genAwait + 1
            /\ okPresses' = okPresses + 1
            /\ UNCHANGED alerts
    /\ UNCHANGED <<lifecycle, revealVars, storeVars, genCalls, genRejected,
                   valVars, nav>>
    /\ UNCHANGED marketVars

\* `await new SeedStore[...]` resolved: this.props.generateNewAddress is called.
onGeneratePressResume ==
    /\ genAwait > 0
    /\ genAwait' = genAwait - 1
    /\ genCalls' = genCalls + 1
    /\ genQueue' = genQueue + 1
    /\ UNCHANGED <<lifecycle, revealVars, isSyncing, isTransitioning,
                   isGeneratingReceiveAddress, receiveAddress, presses,
                   okPresses, genRejected, valVars, alerts, nav>>
    /\ UNCHANGED marketVars

\* `await new SeedStore[...]` threw: the handler's promise is rejected.
onGeneratePressReject ==
    /\ genAwait > 0
    /\ genAwait' = genAwait - 1
    /\ genRejected' = genRejected + 1
    /\ UNCHANGED <<lifecycle, revealVars, storeVars, presses, okPresses,
                   genCalls, valVars, alerts, nav>>
    /\ UNCHANGED marketVars

\* ------------------------------------------------------------ validateAdress
SuccessAlertMut(n) ==
    [level |-> "success", title |-> t(n.content), body |-> t(n.title),
     by |-> "validateAdress"]
\* `generateAlert('success', t(valid.notification.title), t(valid.notification.content))`
SuccessAlert(n) ==
    [level |-> "success", title |-> t(n.title), body |-> t(n.content),
     by |-> "validateAdress"]

\* `await new SeedStore[...]` resolved: seedStore.validateAddress is called.
validateAdressSeedStore ==
    /\ valPc = "awaitSeedStore"
    /\ valPc' = "awaitValidate"
    /\ UNCHANGED <<lifecycle, revealVars, storeVars, genVars, valid, alerts, nav>>
    /\ UNCHANGED marketVars

\* `await new SeedStore[...]` threw, outside the try block.
validateAdressSeedStoreThrows ==
    /\ valPc = "awaitSeedStore"
    /\ valPc' = "rejected"
    /\ UNCHANGED <<lifecycle, revealVars, storeVars, genVars, valid, alerts, nav>>
    /\ UNCHANGED marketVars

InvalidMut(v) == FALSE
\* `if (!valid)`
Invalid(v) == ~v.truthy

\* `else if (valid.notification)`
HasNotification(v) == v.notification # <<>>

\* seedStore.validateAddress returned v.
validateAdressReturns ==
    /\ valPc = "awaitValidate"
    /\ \E v \in ValidResults :
        /\ valid' = v
        /\ IF Invalid(v)
           THEN /\ nav' = Append(nav, "/wallet/")
                /\ UNCHANGED alerts
           ELSE IF HasNotification(v)
           THEN /\ alerts' = Append(alerts, SuccessAlert(v.notification[1]))
                /\ UNCHANGED nav
           ELSE UNCHANGED <<alerts, nav>>
    /\ valPc' = "done"
    /\ UNCHANGED <<lifecycle, revealVars, storeVars, genVars>>
    /\ UNCHANGED marketVars

\* seedStore.validateAddress threw: the catch block.
validateAdressCatch ==
    /\ valPc = "awaitValidate"
    /\ valPc' = "caught"
    /\ nav' = Append(nav, "/wallet/")
    /\ UNCHANGED <<lifecycle, revealVars, storeVars, genVars, valid, alerts>>
    /\ UNCHANGED marketVars

\* ------------------------------------------------------- wallet state store
\* The wallet begins a generation that generateNewAddress asked for.
WalletGenerationBegins ==
    /\ genQueue > 0
    /\ ~isGeneratingReceiveAddress
    /\ genQueue' = genQueue - 1
    /\ isGeneratingReceiveAddress' = TRUE
    /\ componentWillReceiveProps(TRUE)
    /\ UNCHANGED <<lifecycle, isSyncing, isTransitioning, receiveAddress,
                   genVars, valVars, alerts, nav>>
    /\ UNCHANGED marketVars

\* The generation delivered a new address.
WalletGenerationSucceeds ==
    /\ isGeneratingReceiveAddress
    /\ isGeneratingReceiveAddress' = FALSE
    /\ receiveAddress' = receiveAddress + 1
    /\ componentWillReceiveProps(FALSE)
    /\ UNCHANGED <<lifecycle, isSyncing, isTransitioning, genQueue, genVars,
                   valVars, alerts, nav>>
    /\ UNCHANGED marketVars

\* The generation ended without a new address.
WalletGenerationFails ==
    /\ isGeneratingReceiveAddress
    /\ isGeneratingReceiveAddress' = FALSE
    /\ componentWillReceiveProps(FALSE)
    /\ UNCHANGED <<lifecycle, isSyncing, isTransitioning, receiveAddress,
                   genQueue, genVars, valVars, alerts, nav>>
    /\ UNCHANGED marketVars

\* The wallet starts or ends a sync.
WalletSyncing ==
    /\ isSyncing' = ~isSyncing
    /\ componentWillReceiveProps(isGeneratingReceiveAddress)
    /\ UNCHANGED <<lifecycle, isTransitioning, isGeneratingReceiveAddress,
                   receiveAddress, genQueue, genVars, valVars, alerts, nav>>
    /\ UNCHANGED marketVars

\* The wallet starts or ends a snapshot transition.
WalletTransitioning ==
    /\ isTransitioning' = ~isTransitioning
    /\ componentWillReceiveProps(isGeneratingReceiveAddress)
    /\ UNCHANGED <<lifecycle, isSyncing, isGeneratingReceiveAddress,
                   receiveAddress, genQueue, genVars, valVars, alerts, nav>>
    /\ UNCHANGED marketVars

Next ==
    \/ componentDidMount
    \/ componentWillUnmount
    \/ advanceFrame
    \/ onGeneratePress
    \/ onGeneratePressResume
    \/ onGeneratePressReject
    \/ validateAdressSeedStore
    \/ validateAdressSeedStoreThrows
    \/ validateAdressReturns
    \/ validateAdressCatch
    \/ WalletGenerationBegins
    \/ WalletGenerationSucceeds
    \/ WalletGenerationFails
    \/ WalletSyncing
    \/ WalletTransitioning

Spec == Init /\ [][Next]_vars

\* The steps that start, advance and halt the frame loop: the screen is
\* mounted and unmounted, addresses are requested and generated, frames run.
LiveNext ==
    \/ componentDidMount
    \/ componentWillUnmount
    \/ advanceFrame
    \/ onGeneratePress
    \/ onGeneratePressResume
    \/ WalletGenerationBegins
    \/ WalletGenerationSucceeds
    \/ WalletGenerationFails

\* The display-refresh scheduler runs every callback it was handed.
LiveSpec == Init /\ [][LiveNext]_vars /\ WF_vars(advanceFrame)

TypeOK ==
    /\ lifecycle \in {"constructed", "mounted", "unmounted"}
    /\ scramble \in [Positions -> 0..MaxByte]
    /\ pending \in 0..MaxPress
    /\ genAwait \in 0..MaxPress

\* -------------------------------------------------------------------- render
\* The tryte alphabet addresses are written in.
Alphabet == <<"9", "A", "B", "C", "D", "E", "F", "G", "H", "I", "J", "K", "L", "M",
              "N", "O", "P", "Q", "R", "S", "T", "U", "V", "W", "X", "Y", "Z">>

\* byteToChar of libs/helpers: a fixed mapping from a byte to a character.
byteToChar(byte) == Alphabet[(byte % Len(Alphabet)) + 1]

\* The text of the n-th address of the account (props.receiveAddress).
AddressText(n) == [i \in Positions |-> Alphabet[((n + i) % Len(Alphabet)) + 1]]

\* null, and what `||` treats like it.
Null == "null"
Falsy(c) == c \in {Null, ""}

ShowsNoiseMut(v) == v >= 0
\* `scramble[index] > 0`
ShowsNoise(v) == v > 0

\* The characters render() puts into the <p> of the address.
render ==
    LET address == AddressText(receiveAddress)
    IN  [index \in DOMAIN address |->
            LET scrambleChar ==
                    IF index \in DOMAIN scramble /\ ShowsNoise(scramble[index])
                    THEN byteToChar(scramble[index])
                    ELSE Null
            IN  IF Falsy(scrambleChar) THEN address[index] ELSE scrambleChar]

\* ------------------------------------------------------------- properties
AllZero(s) == \A i \in DOMAIN s : s[i] = 0
AllScrambled(s) == \A i \in DOMAIN s : s[i] \in 1..255
\* The alerts validateAdress raised, and those onGeneratePress raised.
ValAlerts == SelectSeq(alerts, LAMBDA a : a.by = "validateAdress")
GenAlerts == SelectSeq(alerts, LAMBDA a : a.by = "onGeneratePress")
Busy == isSyncing \/ isTransitioning

\* C1: a cycle started with every entry in [1,255] has, after
\* 4 * ceil(max/15) unscramble callbacks, an all-zero buffer (every position
\* shows its true character) and no callback queued any more.
C1_RevealedAndStopped ==
    (/\ lifecycle = "mounted"
     /\ started
     /\ AllScrambled(seed)
     /\ calls = 4 * CeilDiv(MaxOf(seed), DecayStep))
    => (AllZero(scramble) /\ pending = 0)

\* C2: while the screen is mounted a callback is queued exactly when a cycle
\* was started and the sum of the buffer is not 0.
C2_PendingIffNonZeroSum ==
    lifecycle = "mounted" => (pending > 0 <=> (started /\ Sum(scramble) # 0))

\* C3: counted from the start of the cycle, every 4th unscramble callback
\* (and no other) is a decay tick, which lowers every entry by 15 floored at
\* 0 and leaves the counter at 1; every other callback leaves the buffer
\* alone, advances the counter by one and schedules the next callback.
C3_DecayCadence ==
    [][calls' = calls + 1 =>
         IF calls' % 4 = 0
         THEN /\ scramble' = [i \in Positions |-> Max(0, scramble[i] - 15)]
              /\ frame' = 1
         ELSE /\ scramble' = scramble
              /\ frame' = frame + 1
              /\ pending' = pending]_vars

\* A cycle in its 8th callback, after two decay ticks, with noise left.
C3_Witness ==
    /\ lifecycle = "mounted"
    /\ calls = 8
    /\ scramble # seed
    /\ Sum(scramble) > 0

\* C4: once the screen is unmounted the buffer and the frame counter never
\* change again and no callback is added to the queue.
C4_UnmountHalts ==
    [][lifecycle = "unmounted" =>
         /\ scramble' = scramble
         /\ frame' = frame
         /\ pending' <= pending]_vars

\* Unmounted in the middle of a cycle, and a queued callback ran afterwards.
C4_Witness ==
    /\ lifecycle = "unmounted"
    /\ staleCalls > 0
    /\ Sum(scramble) > 0

\* What every onGeneratePress call does before it returns or suspends: with a
\* busy flag set, one "please wait" error alert and nothing else; with both
\* flags clear, no alert.
PressStep ==
    presses' = presses + 1 =>
        IF Busy
        THEN /\ Len(alerts') = Len(alerts) + 1
             /\ alerts'[Len(alerts')].level = "error"
             /\ alerts'[Len(alerts')].title = t("global:pleaseWait")
             /\ genCalls' = genCalls
             /\ genAwait' = genAwait
             /\ genQueue' = genQueue
             /\ UNCHANGED <<scramble, frame, pending, started>>
        ELSE /\ alerts' = alerts
             /\ genAwait' = genAwait + 1

\* C5 as stated: PressStep, and every call made with both flags clear has,
\* once none is suspended, called generateNewAddress exactly once.
C5_Original ==
    [][/\ PressStep
       /\ genAwait' = 0 => genCalls' = okPresses']_vars

\* C5: PressStep, generateNewAddress is never called for a blocked call, and
\* every call made with both flags clear ends in exactly one of: one
\* generateNewAddress call (seed store obtained), no call (seed store threw),
\* or is still suspended; none of the three raises an alert.
C5_BusyGuard ==
    [][/\ PressStep
       /\ genCalls' + genRejected' + genAwait' = okPresses'
       /\ Len(GenAlerts)' = presses' - okPresses']_vars

\* One call was blocked and another one delegated.
C5_Witness ==
    /\ presses = 2
    /\ okPresses = 1
    /\ genCalls = 1
    /\ Len(GenAlerts) = 1

\* C6: when validateAddress returned false the screen has navigated to
\* /wallet/ exactly once and validation has raised no alert.
C6_InvalidNavigates ==
    (valPc = "done" /\ ~valid.truthy) =>
        (nav = <<"/wallet/">> /\ ValAlerts = <<>>)

C6_Witness == valPc = "done" /\ ~valid.truthy

\* C7: when validateAddress returned a valid result there is no navigation;
\* with a notification there is exactly one alert, a success alert with the
\* translated title and content, and without one there is no alert.
C7_ValidNotifies ==
    (valPc = "done" /\ valid.truthy) =>
        /\ nav = <<>>
        /\ IF valid.notification # <<>>
           THEN /\ Len(ValAlerts) = 1
                /\ ValAlerts[1].level = "success"
                /\ ValAlerts[1].title = t(valid.notification[1].title)
                /\ ValAlerts[1].body = t(valid.notification[1].content)
           ELSE ValAlerts = <<>>

C7_Witness == valPc = "done" /\ valid.truthy /\ valid.notification # <<>>

\* C8: a failure thrown at any step of validateAdress ends with one
\* navigation to /wallet/ and no alert, and no error leaves the handler.
C8_ThrowNavigates ==
    valPc \in {"caught", "rejected"} =>
        (valPc = "caught" /\ nav = <<"/wallet/">> /\ ValAlerts = <<>>)

\* C9: at most one unscramble callback is queued.
C9_SingleLoop == pending <= 1

\* C10: while the screen is mounted a cycle is started exactly in the steps
\* in which a new address arrives.
C10_StartOnNewAddress ==
    [][lifecycle = "mounted" =>
         (starts' = starts + 1 <=> receiveAddress' # receiveAddress)]_vars

\* C11: every entry of the buffer is an integer in [0,255], and a decay tick
\* takes every entry v to max(0, v - 15).
C11_NeverNegative ==
    [][/\ \A i \in DOMAIN scramble' : scramble'[i] \in 0..255
       /\ (calls' = calls + 1 /\ calls' % 4 = 0) =>
            \A i \in DOMAIN scramble :
                scramble'[i] = (IF scramble[i] > 15 THEN scramble[i] - 15 ELSE 0)]_vars

\* A decay tick has floored an entry that was smaller than the step.
C11_Witness ==
    /\ lifecycle = "mounted"
    /\ calls = 4
    /\ \E i \in Positions : seed[i] \in 1..(DecayStep - 1) /\ scramble[i] = 0

\* C12: as long as no new cycle is started no entry of the buffer grows, so
\* an entry that is 0 stays 0.
C12_NonIncreasing ==
    [][starts' = starts =>
         \A i \in DOMAIN scramble : scramble'[i] <= scramble[i]]_vars

\* One decay tick in, an entry has shrunk and is not yet 0.
C12_Witness ==
    /\ started
    /\ calls \in 4..7
    /\ \E i \in Positions : scramble[i] > 0 /\ scramble[i] < seed[i]

\* C13: the buffer has ADDRESS_LENGTH entries.
C13_Length == Len(scramble) = ADDRESS_LENGTH

\* Unmounted after a cycle was started and had decayed.
C13_Witness ==
    /\ lifecycle = "unmounted"
    /\ started
    /\ scramble # seed

\* C14: a position with magnitude 0 shows the character of the address and a
\* position with a magnitude above 0 shows the character that byteToChar
\* derives from the magnitude; before any cycle, and throughout a cycle that
\* was started with an all-zero buffer, the whole address is shown.
C14_Rendering ==
    /\ \A i \in Positions :
         render[i] = IF scramble[i] = 0
                     THEN AddressText(receiveAddress)[i]
                     ELSE Alphabet[(scramble[i] % 27) + 1]
    /\ (~started \/ AllZero(seed)) => render = AddressText(receiveAddress)

\* A cycle in which one position is revealed and another still shows noise.
C14_Witness ==
    /\ started
    /\ \E i, j \in Positions :
         /\ scramble[i] = 0
         /\ scramble[j] > 0
         /\ render[j] # AddressText(receiveAddress)[j]

\* C15 as stated: once a cycle is started the run reaches a state with an
\* all-zero buffer and no callback queued.
C15_Original == started ~> (AllZero(scramble) /\ pending = 0)

\* C15: once a cycle is started the run reaches a state with no callback
\* queued in which the buffer is all zero or the screen is unmounted.
C15_LoopEnds ==
    started ~> (pending = 0 /\ (AllZero(scramble) \/ lifecycle = "unmounted"))

\* Two frame loops ran at once and both have ended with the buffer revealed.
C15_Witness ==
    /\ lifecycle = "mounted"
    /\ starts = 2
    /\ calls > 4 * (CeilDiv(MaxOf(seed), DecayStep) + 1)
    /\ MaxOf(seed) > 0
    /\ AllZero(scramble)
    /\ pending = 0

\* C18: generateNewAddress is only ever called in a state in which neither
\* isSyncing nor isTransitioning is set.
C18_GuardHoldsAtCall ==
    [][genCalls' = genCalls + 1 => ~Busy]_vars

\* C19: once the screen is unmounted there is no further navigation, alert
\* or generateNewAddress call.
C19_QuietAfterUnmount ==
    [][lifecycle = "unmounted" =>
         /\ nav' = nav
         /\ alerts' = alerts
         /\ genCalls' = genCalls]_vars

\* The entries of the log with the given type.
Logged(type) == {i \in DOMAIN log : log[i].type = type}

\* C16: every getChartData call has sent one fetchMarketChart request per
\* timeframe, a failed fetch leaves the other timeframes to be fetched and
\* stored, and once all fetches of a call have settled, SET_CHART_DATA has
\* been dispatched with the chart data of the fetches that succeeded.
C16_ChartDataDispatched ==
    /\ Cardinality(Logged("fetchMarketChart")) = Len(timeframes) * Len(chartCalls)
    /\ \A k \in DOMAIN chartCalls :
         /\ DOMAIN chartCalls[k].chartData \cup chartCalls[k].failed
              \cup chartCalls[k].outstanding = {"24h", "7d", "1m", "1h"}
         /\ chartCalls[k].outstanding = {} =>
              \E i \in Logged("SET_CHART_DATA") :
                  log[i].payload = chartCalls[k].chartData

\* What changeCurrency and changeTimeframe do first, and when SET_PRICE is
\* dispatched: the plain action comes first in the log and the price request
\* right after it; there are exactly as many SET_PRICE actions as answered
\* price requests.
MarketOrder ==
    /\ \A k \in DOMAIN thunks :
         LET first == log[thunks[k].at + 1]
             price == log[thunks[k].at + 2]
         IN  /\ first.kind = "dispatch"
             /\ thunks[k].name = "changeCurrency" =>
                  (first.type = "SET_CURRENCY" /\ first.payload = thunks[k].currency)
             /\ thunks[k].name = "changeTimeframe" =>
                  (first.type = "SET_TIMEFRAME" /\ first.payload = thunks[k].timeframe)
             /\ price.kind = "request" /\ price.type = "simple.price"
             /\ \A i \in DOMAIN log :
                  (log[i].kind = "request" /\ i > thunks[k].at) => i > thunks[k].at + 1
    /\ Cardinality(Logged("SET_PRICE")) = priceOk
    /\ priceOk + priceFailed + Len(priceInFlight) = Len(thunks)

\* C17: MarketOrder, and the price request of a changeCurrency call asks for
\* the currency that was passed to it.
C17_PriceForPassedCurrency ==
    /\ MarketOrder
    /\ \A k \in DOMAIN thunks :
         thunks[k].name = "changeCurrency" =>
             log[thunks[k].at + 2].payload = toLowerCase(thunks[k].currency)

====
